---- MODULE Spec2Model ----
(***************************************************************************)
(* Navigation and focus core of split_cli.py: the FileTree pane, the       *)
(* ContentView pane and the MainScreen that owns both.                     *)
(*                                                                         *)
(* One action per key of the event loop.  A handler is an operator from    *)
(* the widget state (a record) to the widget state after it; the action    *)
(* of a key applies the handler the framework routes that key to.          *)
(*                                                                         *)
(* Framework behaviour the handlers rely on (Textual):                     *)
(*  - a widget whose `visible` is False is not focusable, and focus() on   *)
(*    it changes nothing;                                                  *)
(*  - blur() of the focused widget hands focus to the other focusable pane *)
(*    and to no widget when there is none;                                 *)
(*  - a widget that gets hidden while it has focus is blurred;             *)
(*  - scroll_y is validated on every assignment and after every change of  *)
(*    the content: clamped into 0 .. max_scroll_y;                         *)
(*  - an on_key handler that calls prevent_default() is the only handler   *)
(*    of that key; a key the focused widget does not handle bubbles to the *)
(*    screen, and a key of a BINDINGS table runs the action it names.      *)
(*    The keys "fk", "fh", "zo", "zc" are taken as one input event each.   *)
(***************************************************************************)
EXTENDS Integers, Sequences, FiniteSets, TLC

\* Largest height of the content pane the model starts with.
MaxHeight == 3

\* Line counts of the texts the content pane can show.
WelcomeLines == 16
SummaryLines == 7
ErrorLines == 1
FenceLines == 2

VARIABLES
    tree_has_focus,     \* FileTree.has_focus
    content_has_focus,  \* ContentView.has_focus
    visible,            \* FileTree.visible
    tree_width,         \* FileTree.styles.width
    tree_display,       \* FileTree.styles.display
    content_width,      \* ContentView.styles.width
    cursor_line,        \* FileTree.cursor_line, -1 when no node is highlighted
    expanded,           \* the tree nodes whose is_expanded is True
    render_text,        \* ContentView.render_text
    scroll_y,           \* ContentView.scroll_y
    size_height,        \* ContentView.size.height
    lastKey,            \* history: the key of the last event
    streak,             \* history: presses of lastKey in a row, capped at 2
    disk,               \* the directory FileTree.load_directory reads
    bpc,                \* "start", then "built" or "crashed" after on_mount
    tree,               \* the children of each node load_directory added
    summary             \* the counts of the last directory summary shown

vars == <<tree_has_focus, content_has_focus, visible, tree_width, tree_display,
          content_width, cursor_line, expanded, render_text, scroll_y,
          size_height, lastKey, streak, disk, bpc, tree, summary>>

buildVars == <<disk, bpc, tree, summary>>

viewVars == <<tree_has_focus, content_has_focus, visible, tree_width,
              tree_display, content_width, cursor_line, expanded, render_text,
              scroll_y, size_height, lastKey, streak>>

Max(a, b) == IF a >= b THEN a ELSE b
Min(a, b) == IF a <= b THEN a ELSE b

(***************************************************************************)
(* The directory loaded at mount: assets/ holds an empty directory, a      *)
(* directory with one C file, and a text file; directories come first.     *)
(***************************************************************************)
Nodes == {"root", "empty", "src", "main.c", "README.md"}

children ==
    [n \in Nodes |->
        CASE n = "root" -> <<"empty", "src", "README.md">>
          [] n = "src"  -> <<"main.c">>
          [] OTHER      -> << >>]

\* What os.path says of a node's path when the file system is intact.
is_dir(n) == n \in {"empty", "src"}
is_file(n) == n \in {"main.c", "README.md"}

\* node.data: the root was made by Tree("Files") and carries no data.
has_data(n) == n # "root"

\* Lines of each file on disk.
FileLines(n) == IF n = "main.c" THEN 3 ELSE 2

\* path.endswith('.c') / '.h' / '.mk' / 'Makefile' in path
fenced(n) == n = "main.c"

\* What the file system answers when a highlighted node's path is probed.
IO == {"ok", "unreadable", "missing"}

Keys == {"tab", "enter", "~", "fk", "fh", "j", "k", "zo", "zc",
         "g", "G", "ctrl+d", "ctrl+u"}

(***************************************************************************)
(* The widget state as one record.                                         *)
(***************************************************************************)
cur ==
    [tree_has_focus |-> tree_has_focus, content_has_focus |-> content_has_focus,
     visible |-> visible, tree_width |-> tree_width,
     tree_display |-> tree_display, content_width |-> content_width,
     cursor_line |-> cursor_line, expanded |-> expanded,
     render_text |-> render_text, scroll_y |-> scroll_y,
     size_height |-> size_height]

WelcomeText == [kind |-> "welcome", node |-> "root"]

\* Rows of a text: ContentView.virtual_size.height.
TextLines(t) ==
    CASE t.kind = "welcome" -> WelcomeLines
      [] t.kind = "summary" -> SummaryLines
      [] t.kind = "file"    ->
            FileLines(t.node) + (IF fenced(t.node) THEN FenceLines ELSE 0)
      [] OTHER              -> ErrorLines

virtual_height(s) == TextLines(s.render_text)

max_scroll_y(s) == Max(0, virtual_height(s) - s.size_height)

\* Assignment to the reactive scroll_y.
set_scroll_y(s, v) ==
    [s EXCEPT !.scroll_y = Max(0, Min(v, max_scroll_y(s)))]

(***************************************************************************)
(* Focus.                                                                  *)
(***************************************************************************)
other(w) == IF w = "tree" THEN "content" ELSE "tree"

has_focus(s, w) == IF w = "tree" THEN s.tree_has_focus ELSE s.content_has_focus

\* Widget.focusable: the tree is focusable while its `visible` is True.
focusable(s, w) == IF w = "tree" THEN s.visible ELSE TRUE

ContentView_on_focus(s) == [s EXCEPT !.content_has_focus = TRUE]

ContentView_on_blur(s) == [s EXCEPT !.content_has_focus = FALSE]

\* FileTree.has_focus as the framework sets it; watch_has_focus only logs.
FileTree_watch_has_focus(s, flag) == [s EXCEPT !.tree_has_focus = flag]

\* The Blur message as the widget w handles it.
on_blur(s, w) ==
    IF w = "tree" THEN FileTree_watch_has_focus(s, FALSE)
    ELSE ContentView_on_blur(s)

\* The Focus message as the widget w handles it.
on_focus(s, w) ==
    IF w = "tree" THEN FileTree_watch_has_focus(s, TRUE)
    ELSE ContentView_on_focus(s)

\* w.focus(): refused for a widget that is not focusable; otherwise the
\* focused widget, if any, is blurred and w is focused.
focus(s, w) ==
    IF ~focusable(s, w) \/ has_focus(s, w) THEN s
    ELSE LET b == IF has_focus(s, other(w)) THEN on_blur(s, other(w)) ELSE s
         IN  on_focus(b, w)

\* w.blur(): nothing unless w is focused; then focus goes to the other pane
\* when that pane is focusable, and to no widget otherwise.
blur(s, w) ==
    IF ~has_focus(s, w) THEN s
    ELSE IF focusable(s, other(w)) THEN focus(s, other(w))
    ELSE on_blur(s, w)

(***************************************************************************)
(* ContentView.                                                            *)
(***************************************************************************)
\* ContentView.update: the text is replaced; the offset is kept and is
\* validated against the new text.
update(s, text) ==
    LET t == [s EXCEPT !.render_text = text]
    IN  set_scroll_y(t, t.scroll_y)

action_scroll_down(s) == set_scroll_y(s, s.scroll_y + 1)

action_scroll_up(s) == set_scroll_y(s, s.scroll_y - 1)

action_scroll_home(s) == set_scroll_y(s, 0)

action_scroll_end_raw(s) == [s EXCEPT !.scroll_y = virtual_height(s)]

action_scroll_end(s) == set_scroll_y(s, virtual_height(s))

action_page_down(s) == set_scroll_y(s, s.scroll_y + (s.size_height - 2))

action_page_up(s) == set_scroll_y(s, s.scroll_y - (s.size_height - 2))

action_return_to_tree(s) == focus(blur(s, "content"), "tree")

ContentKeys == {"j", "k", "g", "G", "ctrl+d", "ctrl+u", "enter"}

ContentView_on_key(s, key) ==
    CASE key = "j"      -> action_scroll_down(s)
      [] key = "k"      -> action_scroll_up(s)
      [] key = "g"      -> action_scroll_home(s)
      [] key = "G"      -> action_scroll_end(s)
      [] key = "ctrl+d" -> action_page_down(s)
      [] key = "ctrl+u" -> action_page_up(s)
      [] key = "enter"  -> action_return_to_tree(s)
      [] OTHER          -> s

(***************************************************************************)
(* FileTree.                                                               *)
(***************************************************************************)
RECURSIVE Flatten(_, _)
\* The rows below and including node n: n, then the rows of its children
\* when n is expanded.
Flatten(n, exp) ==
    LET RECURSIVE Rows(_)
        Rows(cs) == IF cs = << >> THEN << >>
                    ELSE Flatten(Head(cs), exp) \o Rows(Tail(cs))
    IN  <<n>> \o (IF n \in exp THEN Rows(children[n]) ELSE << >>)

\* The visible rows of the tree, the root first.
tree_lines(s) == Flatten("root", s.expanded)

last_line(s) == Len(tree_lines(s)) - 1

\* Tree.cursor_node: None (here "none") while no row is highlighted.
cursor_node(s) ==
    IF s.cursor_line < 0 THEN "none" ELSE tree_lines(s)[s.cursor_line + 1]

\* IOCCCViewer.update_content: an empty content is replaced by a notice.
update_content(s, label, content) ==
    IF content.kind = "file" /\ TextLines(content) = 0
    THEN update(s, [kind |-> "nocontent", node |-> label])
    ELSE update(s, content)

\* FileTree.on_tree_node_highlighted, for the node that became highlighted
\* and the answer io of the file system for its path.
on_tree_node_highlighted(s, n, io) ==
    IF n = "none" \/ ~has_data(n) THEN s
    ELSE IF is_file(n) /\ io # "missing"
    THEN IF io = "ok"
         THEN update_content(s, n, [kind |-> "file", node |-> n])
         ELSE update_content(s, n, [kind |-> "error", node |-> n])
    ELSE IF is_dir(n) /\ io # "missing"
    THEN IF io = "ok"
         THEN update_content(s, n, [kind |-> "summary", node |-> n])
         ELSE update_content(s, n, [kind |-> "direrror", node |-> n])
    ELSE s

\* Assignment to Tree.cursor_line: validated into the rows, and a
\* NodeHighlighted message when the highlighted row changes.
set_cursor_line(s, v, io) ==
    LET line == Max(0, Min(v, last_line(s)))
        t == [s EXCEPT !.cursor_line = line]
    IN  IF line = s.cursor_line THEN s
        ELSE on_tree_node_highlighted(t, cursor_node(t), io)

action_cursor_down_wrap(s, io) ==
    IF s.cursor_line = -1 \/ s.cursor_line = last_line(s)
    THEN set_cursor_line(s, 0, io)
    ELSE set_cursor_line(s, s.cursor_line + 1, io)

action_cursor_down(s, io) ==
    IF s.cursor_line = -1 THEN set_cursor_line(s, 0, io)
    ELSE set_cursor_line(s, s.cursor_line + 1, io)

action_cursor_up(s, io) ==
    IF s.cursor_line = -1 THEN set_cursor_line(s, last_line(s), io)
    ELSE set_cursor_line(s, s.cursor_line - 1, io)

\* TreeNode.expand / TreeNode.collapse; the cursor stays on its node, whose
\* row is above every row that appears or disappears.
expand(s, n) == [s EXCEPT !.expanded = @ \cup {n}]

collapse(s, n) == [s EXCEPT !.expanded = @ \ {n}]

FileTree_on_key_no_expand(s, key, io) ==
    CASE key = "j" -> action_cursor_down(s, io)
      [] key = "k" -> action_cursor_up(s, io)
      [] key = "enter" ->
            LET n == cursor_node(s)
            IN  IF n = "none" THEN s
                ELSE IF children[n] # << >>
                THEN IF n \in s.expanded THEN collapse(s, n) ELSE s
                ELSE focus(blur(s, "tree"), "content")
      [] OTHER -> s

FileTree_on_key(s, key, io) ==
    CASE key = "j" -> action_cursor_down(s, io)
      [] key = "k" -> action_cursor_up(s, io)
      [] key = "enter" ->
            LET n == cursor_node(s)
            IN  IF n = "none" THEN s
                ELSE IF children[n] # << >>
                THEN IF n \in s.expanded THEN collapse(s, n) ELSE expand(s, n)
                ELSE focus(blur(s, "tree"), "content")
      [] OTHER -> s

action_expand_node_toggle(s) ==
    LET n == cursor_node(s)
    IN  IF n # "none" /\ children[n] # << >>
        THEN IF n \in s.expanded THEN collapse(s, n) ELSE expand(s, n)
        ELSE s

action_expand_node(s) ==
    LET n == cursor_node(s)
    IN  IF n # "none" /\ children[n] # << >> /\ n \notin s.expanded
        THEN expand(s, n) ELSE s

action_collapse_node(s) ==
    LET n == cursor_node(s)
    IN  IF n # "none" /\ children[n] # << >> /\ n \in s.expanded
        THEN collapse(s, n) ELSE s

FileTree_BINDINGS(s, key) ==
    CASE key = "zo" -> action_expand_node(s)
      [] key = "zc" -> action_collapse_node(s)
      [] OTHER -> s

toggle_visibility_no_focus(s) ==
    LET v == ~s.visible
        t == [s EXCEPT !.visible = v,
                       !.tree_width = IF v THEN "30%" ELSE "0",
                       !.tree_display = IF v THEN "block" ELSE "none",
                       !.content_width = IF v THEN "70%" ELSE "100%"]
    IN  IF v THEN t ELSE blur(t, "tree")

\* FileTree.toggle_visibility; a tree hidden while focused is blurred.
toggle_visibility(s) ==
    LET v == ~s.visible
        t == [s EXCEPT !.visible = v,
                       !.tree_width = IF v THEN "30%" ELSE "0",
                       !.tree_display = IF v THEN "block" ELSE "none",
                       !.content_width = IF v THEN "70%" ELSE "100%"]
    IN  IF v THEN focus(t, "tree") ELSE blur(t, "tree")

(***************************************************************************)
(* MainScreen.                                                             *)
(***************************************************************************)
action_switch_focus_to_content(s) == focus(blur(s, "tree"), "content")

action_switch_focus(s) ==
    IF s.tree_has_focus THEN focus(blur(s, "tree"), "content")
    ELSE focus(blur(s, "content"), "tree")

action_toggle_sidebar(s) == toggle_visibility(s)

action_focus_viewer(s) == focus(blur(s, "tree"), "content")

action_focus_tree(s) == focus(blur(s, "content"), "tree")

MainScreen_BINDINGS(s, key) ==
    CASE key = "tab" -> action_switch_focus(s)
      [] key = "~"   -> action_toggle_sidebar(s)
      [] key = "fk"  -> action_focus_viewer(s)
      [] key = "fh"  -> action_focus_tree(s)
      [] OTHER       -> s

MainScreen_on_key(s, key) ==
    IF key = "tab" THEN action_switch_focus(s)
    ELSE MainScreen_BINDINGS(s, key)

\* MainScreen.on_mount: the tree is focused.
MainScreen_on_mount(s) == focus(s, "tree")

(***************************************************************************)
(* One input event: the key goes to the focused widget; a key it does not  *)
(* handle goes to its bindings and then to the screen.                     *)
(***************************************************************************)
TreeKeys == {"j", "k", "enter"}

HandleKey_cursor_keys_to_tree(s, key, io) ==
    IF key \in {"j", "k"}
    THEN FileTree_on_key(s, key, io)
    ELSE IF s.content_has_focus /\ key \in ContentKeys
    THEN ContentView_on_key(s, key)
    ELSE IF s.tree_has_focus /\ key \in TreeKeys
    THEN FileTree_on_key(s, key, io)
    ELSE IF s.tree_has_focus /\ key \in {"zo", "zc"}
    THEN FileTree_BINDINGS(s, key)
    ELSE IF key \in {"tab", "~", "fk", "fh"}
    THEN MainScreen_on_key(s, key)
    ELSE s

HandleKey(s, key, io) ==
    IF s.content_has_focus /\ key \in ContentKeys
    THEN ContentView_on_key(s, key)
    ELSE IF s.tree_has_focus /\ key \in TreeKeys
    THEN FileTree_on_key(s, key, io)
    ELSE IF s.tree_has_focus /\ key \in {"zo", "zc"}
    THEN FileTree_BINDINGS(s, key)
    ELSE IF key \in {"tab", "~", "fk", "fh"}
    THEN MainScreen_on_key(s, key)
    ELSE s

(***************************************************************************)
(* FileTree.load_directory over a directory on disk.  A name is the        *)
(* sequence of its character codes; an entry is a name and whether it is a *)
(* directory; a directory is its path from the loaded root.                *)
(***************************************************************************)
\* Most entries of the loaded root.
MaxRootEntries == 4

N_Src == <<83, 114, 99>>
N_lib == <<108, 105, 98>>
N_Bc == <<66, 46, 99>>
N_amd == <<97, 46, 109, 100>>
N_env == <<46, 101, 110, 118>>
N_pycache == <<95, 95, 112, 121, 99, 97, 99, 104, 101, 95, 95>>
N_mc == <<109, 46, 99>>
N_dotx == <<46, 120>>
N_sub == <<115, 117, 98>>

Dir(name) == [name |-> name, dir |-> TRUE]
File(name) == [name |-> name, dir |-> FALSE]

RootCandidates ==
    {Dir(N_Src), Dir(N_lib), Dir(N_pycache), File(N_Bc), File(N_amd),
     File(N_env)}

\* What src/ may hold.
SrcContents ==
    {{}, {File(N_mc)}, {File(N_mc), File(N_dotx)}, {Dir(N_sub), File(N_mc)}}

\* The directories of a disk with root entries R and src/ holding c, and the
\* directories bad whose listing fails.
MkDisk(R, c, bad) ==
    LET dirs ==
            (<< >> :> R)
            @@ (IF Dir(N_Src) \in R THEN <<N_Src>> :> c ELSE << >>)
            @@ (IF Dir(N_Src) \in R /\ Dir(N_sub) \in c
                THEN <<N_Src, N_sub>> :> {File(N_mc)} ELSE << >>)
            @@ (IF Dir(N_lib) \in R THEN <<N_lib>> :> {File(N_mc)} ELSE << >>)
            @@ (IF Dir(N_pycache) \in R THEN <<N_pycache>> :> {} ELSE << >>)
    IN  [dirs |-> dirs, bad |-> bad \cap DOMAIN dirs]

Disks ==
    {MkDisk(R, c, bad) :
        R \in {X \in SUBSET RootCandidates : Cardinality(X) <= MaxRootEntries},
        c \in SrcContents,
        bad \in SUBSET {<<N_Src>>, <<N_lib>>}}

\* The disk of the event-loop model: nothing fails.
FixtureDisk == MkDisk({Dir(N_Src), File(N_amd)}, {File(N_mc)}, {})

\* str.lower() on the character codes.
lower(name) ==
    [i \in DOMAIN name |->
        IF name[i] >= 65 /\ name[i] <= 90 THEN name[i] + 32 ELSE name[i]]

\* a < b for two strings.
StrLess(a, b) ==
    \/ \E i \in 1..Min(Len(a), Len(b)) :
          /\ a[i] < b[i]
          /\ \A j \in 1..(i - 1) : a[j] = b[j]
    \/ /\ Len(a) < Len(b)
       /\ \A j \in 1..Len(a) : a[j] = b[j]

sort_key_less_case_sensitive(a, b) ==
    \/ a.dir /\ ~b.dir
    \/ a.dir = b.dir /\ StrLess(a.name, b.name)

\* key=lambda p: (not p.is_dir(), p.name.lower())
sort_key_less(a, b) ==
    \/ a.dir /\ ~b.dir
    \/ a.dir = b.dir /\ StrLess(lower(a.name), lower(b.name))

RECURSIVE iterdir(_)
\* path.iterdir(): the entries in some order.
iterdir(S) ==
    IF S = {} THEN << >>
    ELSE LET e == CHOOSE x \in S : TRUE IN <<e>> \o iterdir(S \ {e})

\* sorted(path.iterdir(), key=...)
sorted(S) == SortSeq(iterdir(S), sort_key_less)

\* item.name.startswith('.') or item.name == '__pycache__'
skipped(e) == e.name[1] = 46 \/ e.name = N_pycache

RECURSIVE add_to_tree(_, _)
RECURSIVE add_items(_, _, _, _, _)
\* The loop of add_to_tree over the sorted items from the i-th on, with the
\* children kids added to the node so far and the nodes below in sub.  An
\* exception in a recursive call ends the loop and leaves what was added.
add_items(d, path, items, kids, sub) ==
    IF items = << >> THEN [ok |-> TRUE, tree |-> (path :> kids) @@ sub]
    ELSE LET item == Head(items)
         IN  IF skipped(item)
             THEN add_items(d, path, Tail(items), kids, sub)
             ELSE IF item.dir
             THEN LET r == add_to_tree(d, path \o <<item.name>>)
                  IN  IF r.ok
                      THEN add_items(d, path, Tail(items),
                                     Append(kids, item), r.tree @@ sub)
                      ELSE [ok |-> FALSE,
                            tree |-> (path :> Append(kids, item))
                                        @@ r.tree @@ sub]
             ELSE add_items(d, path, Tail(items), Append(kids, item), sub)

\* add_to_tree(node, path): listing the directory raises when it is bad.
add_to_tree(d, path) ==
    IF path \in d.bad THEN [ok |-> FALSE, tree |-> (path :> << >>)]
    ELSE add_items(d, path, sorted(d.dirs[path]), << >>, << >>)

\* FileTree.load_directory("assets")
load_directory(d) == add_to_tree(d, << >>)

\* The two counts of the directory summary of os.listdir(path).
summary_counts(d, path) ==
    [path |-> path,
     num_files |-> Cardinality({e \in d.dirs[path] : ~e.dir}),
     num_dirs |-> Cardinality({e \in d.dirs[path] : e.dir})]

NoSummary == [path |-> << >>, num_files |-> -1, num_dirs |-> -1]

(***************************************************************************)
(* The state machine.                                                      *)
(***************************************************************************)
\* The widgets as composed, before the screen is mounted.
Composed(h) ==
    [tree_has_focus |-> FALSE, content_has_focus |-> FALSE,
     visible |-> TRUE, tree_width |-> "30%", tree_display |-> "block",
     content_width |-> "70%", cursor_line |-> -1, expanded |-> {},
     render_text |-> WelcomeText, scroll_y |-> 0, size_height |-> h]

\* FileTree.on_mount: the root is expanded and the directory is loaded.
FileTree_on_mount(s) == expand(s, "root")

Set(r) ==
    /\ tree_has_focus' = r.tree_has_focus
    /\ content_has_focus' = r.content_has_focus
    /\ visible' = r.visible
    /\ tree_width' = r.tree_width
    /\ tree_display' = r.tree_display
    /\ content_width' = r.content_width
    /\ cursor_line' = r.cursor_line
    /\ expanded' = r.expanded
    /\ render_text' = r.render_text
    /\ scroll_y' = r.scroll_y
    /\ size_height' = r.size_height

Init ==
    \E h \in 1..MaxHeight :
        LET r == MainScreen_on_mount(FileTree_on_mount(Composed(h)))
        IN  /\ tree_has_focus = r.tree_has_focus
            /\ content_has_focus = r.content_has_focus
            /\ visible = r.visible
            /\ tree_width = r.tree_width
            /\ tree_display = r.tree_display
            /\ content_width = r.content_width
            /\ cursor_line = r.cursor_line
            /\ expanded = r.expanded
            /\ render_text = r.render_text
            /\ scroll_y = r.scroll_y
            /\ size_height = r.size_height
            /\ lastKey = "none"
            /\ streak = 0
            /\ disk = FixtureDisk
            /\ bpc = "built"
            /\ tree = load_directory(FixtureDisk).tree
            /\ summary = NoSummary

\* One key event, fully processed.
Press(key) ==
    /\ \E io \in IO : Set(HandleKey(cur, key, io))
    /\ lastKey' = key
    /\ streak' = IF key = lastKey THEN 2 ELSE 1
    /\ UNCHANGED buildVars

PressTab == Press("tab")
PressEnter == Press("enter")
PressTilde == Press("~")
PressFK == Press("fk")
PressFH == Press("fh")
PressJ == Press("j")
PressK == Press("k")
PressZO == Press("zo")
PressZC == Press("zc")
PressG == Press("g")
PressShiftG == Press("G")
PressCtrlD == Press("ctrl+d")
PressCtrlU == Press("ctrl+u")

Next ==
    \/ PressTab
    \/ PressEnter
    \/ PressTilde
    \/ PressFK
    \/ PressFH
    \/ PressJ
    \/ PressK
    \/ PressZO
    \/ PressZC
    \/ PressG
    \/ PressShiftG
    \/ PressCtrlD
    \/ PressCtrlU

Spec == Init /\ [][Next]_vars

(***************************************************************************)
(* The build of the tree at mount, over every disk, and the directory      *)
(* summary of a node of the built tree.                                    *)
(***************************************************************************)
BuildInit ==
    /\ disk \in Disks
    /\ bpc = "start"
    /\ tree = << >>
    /\ summary = NoSummary
    /\ LET r == MainScreen_on_mount(FileTree_on_mount(Composed(1)))
       IN  /\ tree_has_focus = r.tree_has_focus
           /\ content_has_focus = r.content_has_focus
           /\ visible = r.visible
           /\ tree_width = r.tree_width
           /\ tree_display = r.tree_display
           /\ content_width = r.content_width
           /\ cursor_line = r.cursor_line
           /\ expanded = r.expanded
           /\ render_text = r.render_text
           /\ scroll_y = r.scroll_y
           /\ size_height = r.size_height
           /\ lastKey = "none"
           /\ streak = 0

\* FileTree.on_mount: load_directory runs; an exception it raises ends the
\* application.
Mount ==
    /\ bpc = "start"
    /\ LET r == load_directory(disk)
       IN  /\ tree' = r.tree
           /\ bpc' = IF r.ok THEN "built" ELSE "crashed"
    /\ UNCHANGED <<disk, summary>>
    /\ UNCHANGED viewVars

\* A directory node is highlighted and its path can be listed: the summary
\* is shown.
Highlight ==
    /\ bpc = "built"
    /\ \E p \in DOMAIN tree \ {<< >>} :
          /\ p \notin disk.bad
          /\ summary' = summary_counts(disk, p)
    /\ UNCHANGED <<disk, bpc, tree>>
    /\ UNCHANGED viewVars

BuildNext == Mount \/ Highlight

BuildSpec == BuildInit /\ [][BuildNext]_vars

(***************************************************************************)
(* Properties.                                                             *)
(***************************************************************************)
TreeFocused == tree_has_focus /\ ~content_has_focus
ContentFocused == content_has_focus /\ ~tree_has_focus

\* The offset of the last row that can be the top row of the pane.
MaxOffset == Max(0, TextLines(render_text) - size_height)

\* The state after the keys k1 and k2, pressed one after the other.
After2(k1, k2, io) == HandleKey(HandleKey(cur, k1, io), k2, io)

\* C1: after every input event exactly one of the two panes has focus,
\* never both and never neither.
FocusExactlyOne == tree_has_focus # content_has_focus

\* C2: whenever the sidebar is hidden, the content view has focus.
HiddenSidebarContentFocused == ~visible => ContentFocused

SidebarRoundTrip ==
    (visible /\ FocusExactlyOne) =>
        \A io \in IO :
            LET s2 == After2("~", "~", io)
            IN  /\ s2.tree_has_focus = tree_has_focus
                /\ s2.content_has_focus = content_has_focus
                /\ s2.tree_width = tree_width
                /\ s2.content_width = content_width

\* C4 amended: with the sidebar visible, two sidebar toggles in a row restore
\* both pane widths and the visibility and leave the tree focused, so the
\* focus is restored exactly when the tree had it.
SidebarRoundTripToTree ==
    visible =>
        \A io \in IO :
            LET s2 == After2("~", "~", io)
            IN  /\ s2.tree_has_focus /\ ~s2.content_has_focus
                /\ s2.visible
                /\ s2.tree_width = tree_width
                /\ s2.tree_display = tree_display
                /\ s2.content_width = content_width
                /\ (/\ s2.tree_has_focus = tree_has_focus
                    /\ s2.content_has_focus = content_has_focus) <=> TreeFocused

\* C4 witness: the sidebar was toggled twice in a row and is shown again.
SidebarToggledTwice ==
    /\ lastKey = "~"
    /\ streak = 2
    /\ visible
    /\ TreeFocused
    /\ tree_width = "30%"
    /\ content_width = "70%"

\* C5: in the content view, g is only buffered; g followed by another key
\* scrolls nothing, and offset, content and focus are as without the g.
PendingGCancelled ==
    content_has_focus =>
        \A key \in Keys \ {"g"} : \A io \in IO :
            LET s1 == HandleKey(cur, "g", io)
                s2 == HandleKey(s1, key, io)
                alone == HandleKey(cur, key, io)
            IN  /\ s1.scroll_y = scroll_y
                /\ \/ /\ s2.scroll_y = scroll_y
                      /\ s2.render_text = render_text
                      /\ s2.content_has_focus = content_has_focus
                      /\ s2.tree_has_focus = tree_has_focus
                   \/ /\ s2.scroll_y = alone.scroll_y
                      /\ s2.render_text = alone.render_text
                      /\ s2.content_has_focus = alone.content_has_focus
                      /\ s2.tree_has_focus = alone.tree_has_focus

\* C6: whenever the content is replaced by a loaded file, the scroll offset
\* is 0 right after.
FileLoadResetsOffset ==
    [][(render_text' # render_text /\ render_text'.kind = "file")
          => scroll_y' = 0]_vars

\* C7: the tree is focused initially, and the focus changes only on Tab, fk,
\* fh, a sidebar toggle, Enter in the content view, and Enter on a file
\* node in the tree.
FocusChangesOnlyOnTriggers ==
    /\ tree_has_focus = TRUE /\ content_has_focus = FALSE
    /\ [][(<<tree_has_focus, content_has_focus>>' #
              <<tree_has_focus, content_has_focus>>)
            => \/ lastKey' \in {"tab", "fk", "fh", "~"}
               \/ lastKey' = "enter" /\ content_has_focus
               \/ /\ lastKey' = "enter"
                  /\ tree_has_focus
                  /\ is_file(cursor_node(cur))]_vars

\* C8: Enter in the tree on a directory without children keeps the tree
\* focused and the cursor on that node.
EnterOnEmptyDirectoryKeepsFocus ==
    [][(/\ lastKey' = "enter"
        /\ tree_has_focus
        /\ is_dir(cursor_node(cur))
        /\ children[cursor_node(cur)] = << >>)
          => /\ tree_has_focus' /\ ~content_has_focus'
             /\ cursor_line' = cursor_line]_vars

\* C9: with the sidebar visible, one Tab gives focus to the other pane and
\* two Tabs give it back.
TabSwitchesPane ==
    visible =>
        \A io \in IO :
            LET s1 == HandleKey(cur, "tab", io)
                s2 == HandleKey(s1, "tab", io)
            IN  /\ FocusExactlyOne
                /\ s1.tree_has_focus # s1.content_has_focus
                /\ s1.tree_has_focus # tree_has_focus
                /\ s2.tree_has_focus = tree_has_focus
                /\ s2.content_has_focus = content_has_focus

\* C9 witness: Tab was pressed twice in a row with the sidebar visible and
\* the content view has focus.
TabPressedTwice ==
    /\ lastKey = "tab"
    /\ streak = 2
    /\ visible
    /\ ContentFocused

\* C10: Enter in the content view focuses the tree and leaves the offset,
\* the content, the cursor and the expanded flags as they were.
EnterInContentReturnsToTree ==
    [][(lastKey' = "enter" /\ content_has_focus)
          => /\ tree_has_focus' /\ ~content_has_focus'
             /\ UNCHANGED <<scroll_y, render_text, cursor_line, expanded>>]_vars

\* The rows of the children of node n, in order.
ChildSet(n) == {children[n][i] : i \in 1..Len(children[n])}

\* The parent of a node other than the root.
parent(n) == CHOOSE p \in Nodes : n \in ChildSet(p)

RECURSIVE Visible(_, _)
\* A node is visible when every ancestor of it is expanded.
Visible(n, exp) ==
    n = "root" \/ (parent(n) \in exp /\ Visible(parent(n), exp))

RowSet(s) == {tree_lines(s)[i] : i \in 1..Len(tree_lines(s))}

\* C11: Enter in the tree on a collapsed directory with children sets its
\* expanded flag, puts its children among the visible rows, and leaves the
\* cursor on the node and the tree focused.
EnterExpandsDirectory ==
    LET n == cursor_node(cur)
    IN  (/\ TreeFocused
         /\ n # "none"
         /\ children[n] # << >>
         /\ n \notin expanded)
        => \A io \in IO :
             LET s1 == HandleKey(cur, "enter", io)
             IN  /\ n \in s1.expanded
                 /\ ChildSet(n) \subseteq RowSet(s1)
                 /\ ChildSet(n) \cap RowSet(cur) = {}
                 /\ s1.cursor_line = cursor_line
                 /\ cursor_node(s1) = n
                 /\ s1.tree_has_focus /\ ~s1.content_has_focus

\* C11 witness: Enter was pressed in the tree with the cursor on src/, which
\* is now expanded with main.c among the rows.
DirectoryExpandedByEnter ==
    /\ lastKey = "enter"
    /\ TreeFocused
    /\ cursor_node(cur) = "src"
    /\ "src" \in expanded
    /\ "main.c" \in RowSet(cur)

\* C12: on every directory under the cursor, Enter twice gives back the
\* expanded flags; zo on an expanded node and zc on a collapsed node change
\* nothing; zo twice is zo once, and zc twice is zc once.
ExpandIdempotence ==
    LET n == cursor_node(cur)
    IN  (TreeFocused /\ n # "none" /\ (is_dir(n) \/ n = "root"))
        => \A io \in IO :
             /\ After2("enter", "enter", io).expanded = expanded
             /\ n \in expanded => HandleKey(cur, "zo", io) = cur
             /\ n \notin expanded => HandleKey(cur, "zc", io) = cur
             /\ After2("zo", "zo", io) = HandleKey(cur, "zo", io)
             /\ After2("zc", "zc", io) = HandleKey(cur, "zc", io)

\* C12 witness: zo was pressed twice in a row on src/, which is expanded.
ExpandPressedTwice ==
    /\ lastKey = "zo"
    /\ streak = 2
    /\ TreeFocused
    /\ cursor_node(cur) = "src"
    /\ "src" \in expanded

FileReadFailureShowsError ==
    TreeFocused =>
        \A key \in {"j", "k"} : \A io \in {"unreadable", "missing"} :
            LET s1 == HandleKey(cur, key, io)
                n == cursor_node(s1)
            IN  (s1.cursor_line # cursor_line /\ is_file(n))
                    => s1.render_text = [kind |-> "error", node |-> n]

\* C18: in the content view, page down never lowers the offset and page up
\* never raises it, for every height of the pane.
PagingIsMonotone ==
    ContentFocused =>
        \A io \in IO :
            /\ HandleKey(cur, "ctrl+d", io).scroll_y >= scroll_y
            /\ HandleKey(cur, "ctrl+u", io).scroll_y <= scroll_y

\* C19: whenever the cursor is on a node, the content shown is the one of
\* that node: the file text (or its error) of a file node, the summary of a
\* directory node, the root included.
ContentFollowsCursor ==
    cursor_line >= 0 =>
        LET n == cursor_node(cur)
        IN  /\ render_text.node = n
            /\ is_file(n) =>
                  render_text.kind \in {"file", "error", "nocontent"}
            /\ ~is_file(n) => render_text.kind \in {"summary", "direrror"}

\* C20: in the content view the keys j, k, g, G, Ctrl-d, Ctrl-u change at
\* most the scroll offset; in the tree j and k change the offset only by
\* the validation that follows a replacement of the content.
ScrollKeysFrame ==
    [][/\ (content_has_focus
             /\ lastKey' \in {"j", "k", "g", "G", "ctrl+d", "ctrl+u"})
          => UNCHANGED <<cursor_line, expanded, render_text, visible,
                         tree_has_focus, content_has_focus, tree_width,
                         tree_display, content_width, size_height>>
       /\ (tree_has_focus /\ lastKey' \in {"j", "k"})
          => /\ render_text' = render_text => scroll_y' = scroll_y
             /\ scroll_y' =
                  Min(scroll_y, Max(0, TextLines(render_text') - size_height))
      ]_vars

\* C20 witness: j was pressed in the content view and the offset is above 0
\* while the tree cursor is on a node.
ScrolledInContent ==
    /\ lastKey = "j"
    /\ ContentFocused
    /\ scroll_y > 0
    /\ cursor_line >= 0

\* The children of a node of the built tree, as a set.
KidSet(p) == {tree[p][i] : i \in 1..Len(tree[p])}

\* A directory of the disk that the build gets to list: neither it nor a
\* directory above it fails or is skipped.
Listed(p) ==
    /\ p \in DOMAIN disk.dirs
    /\ \A k \in 0..Len(p) : SubSeq(p, 1, k) \notin disk.bad
    /\ \A k \in 1..Len(p) : ~skipped(Dir(p[k]))

\* C14: when the listing of a directory below the root fails, the build
\* still ends with a tree, and every directory that can be listed has all
\* its entries (but the skipped ones) in the tree.
ListingFailureOmitsOnlySubtree ==
    (bpc # "start" /\ << >> \notin disk.bad) =>
        /\ bpc = "built"
        /\ \A p \in DOMAIN disk.dirs :
              Listed(p) =>
                 /\ p \in DOMAIN tree
                 /\ KidSet(p) = {e \in disk.dirs[p] : ~skipped(e)}

\* C16: the counts of a directory summary are the numbers of file children
\* and of directory children of that node in the tree.
SummaryCountsTreeChildren ==
    summary # NoSummary =>
        LET kids == tree[summary.path]
        IN  /\ summary.num_files =
                  Cardinality({i \in 1..Len(kids) : ~kids[i].dir})
            /\ summary.num_dirs =
                  Cardinality({i \in 1..Len(kids) : kids[i].dir})

\* C17: the children of every node of the tree have the directories before
\* the files and, within each group, ascend by lower-cased name, at mount
\* and after every later step.
ChildrenSortedDirsFirst ==
    \A p \in DOMAIN tree :
        \A i \in 1..Len(tree[p]) : \A j \in (i + 1)..Len(tree[p]) :
            LET a == tree[p][i]
                b == tree[p][j]
            IN  /\ ~(~a.dir /\ b.dir)
                /\ a.dir = b.dir => ~StrLess(lower(b.name), lower(a.name))

\* C17 witness: a tree was built with two directories and two files under
\* the root, a.md before B.c, and a directory summary was shown since.
SortedRootBuilt ==
    /\ bpc = "built"
    /\ summary # NoSummary
    /\ tree[<< >>] = <<Dir(N_lib), Dir(N_Src), File(N_amd), File(N_Bc)>>

====
